---- MODULE Spec2Model ----
(***************************************************************************)
(* ThreadWin: a Win32 thread wrapper with synchronized start and forced    *)
(* message-queue creation, together with the WorkerThread message loop and *)
(* the main() driver of src/main.cpp.                                      *)
(*                                                                         *)
(* Owner threads issue the lifecycle calls (in Spec only the thread that   *)
(* runs main()); every spawned OS thread runs ThreadWin::RunProcess.       *)
(* Owner steps and worker steps interleave freely.  Every blocking wait is bounded by MAX_WAIT_TIME:    *)
(* a wait on an event that is not signaled may time out at any moment.     *)
(* ASSERT_TRUE / ASSERT hand over to the fault handler, which aborts the   *)
(* process.                                                                *)
(***************************************************************************)
EXTENDS Integers, Sequences, FiniteSets, TLC

\* ---------------------------------------------------------------- bounds
MaxThreads == 2      \* OS threads spawned during one run
MaxPosts   == 2      \* PostThreadMessage calls issued by the owner
MaxStartAll == 2     \* StartAllThreads calls

\* ------------------------------------------------------------- constants
Handles == {1, 2}                     \* workerThread1, workerThread2
Owners == {1, 2}                      \* threads that call into ThreadWin
Main == 1                             \* the thread running main()
Releaser == 2                         \* a thread that only calls StartAllThreads()
INVALID_HANDLE_VALUE == -1
NULL == 0
NoCode == -1                          \* no return value / exit code yet
NoMsg == <<"none", 0>>                \* a MSG that holds no message
NO_EVENT == "INVALID_HANDLE_VALUE"    \* an event field holding INVALID_HANDLE_VALUE
CREATED_EVENT == "ThreadCreatedEvent"
EXITED_EVENT  == "ThreadExitedEvent"
EventNames == {CREATED_EVENT, EXITED_EVENT}
WM_THREAD_MSG  == "WM_THREAD_MSG"
WM_EXIT_THREAD == "WM_EXIT_THREAD"
WM_QUIT        == "WM_QUIT"           \* the message on which GetMessage returns 0

THREAD_NAME(h) == IF h = 1 THEN "WorkerThread1" ELSE "WorkerThread2"

Tids == 1..MaxThreads

VARIABLES
  SYNC_START,        \* [Handles -> BOOLEAN], fixed at construction
  m_hThread,         \* [Handles -> Int]: INVALID_HANDLE_VALUE, NULL or the thread it denotes
  m_threadId,        \* [Handles -> 0..MaxThreads]: id of the last thread spawned, 0 before
  m_hThreadStarted,  \* [Handles -> event name or NO_EVENT]
  m_hThreadExited,   \* [Handles -> event name or NO_EVENT]
  m_hStartAllThreads,\* TRUE iff the shared release-all event is signaled
  startAllCalled,    \* TRUE once StartAllThreads() has been invoked
  events,            \* named kernel event objects: [refs, signaled]
  tObj,              \* [Tids -> Handles \cup {0}]: the ThreadWin a thread was spawned for
  tPc,               \* [Tids -> position of the thread inside RunProcess]
  tQueue,            \* [Tids -> Seq(<<tag, wParam>>)], the thread's message queue
  tOut,              \* [Tids -> Seq(<<payload, name>>)], what the loop printed
  nextTid,           \* number of OS threads spawned so far
  opc,               \* [Owners -> position of that owner thread]
  oh,                \* [Owners -> handle its current call operates on, 0 when idle]
  lastRet,           \* what the last completed owner call returned
  exitPath,          \* [Handles -> how the last ExitThread() since CreateThread() completed]
  nPosts,            \* number of owner PostThreadMessage() calls
  heap,              \* ThreadMsg objects allocated and not deleted
  sentTo,            \* [payload -> thread whose queue received it, 0 if none]
  fault,             \* "none", or the failed assertion that aborted the process
  processCalls,      \* [Tids -> number of times the thread has called Process()]
  retVal,            \* [Tids -> what Process() returned, NoCode before]
  exitCode,          \* [Tids -> exit code of the OS thread, NoCode while it has not ended]
  nStartAll,         \* number of StartAllThreads() calls
  tMsg,              \* [Tids -> the MSG that GetMessage filled in, NoMsg outside a case]
  postCreated,       \* [payload -> TRUE iff its handle was created when it was posted]
  exitParked         \* [Handles -> TRUE iff the last ExitThread() began on a sync-start
                     \*  handle whose barrier had never been released]

vars == <<SYNC_START, m_hThread, m_threadId, m_hThreadStarted, m_hThreadExited,
          m_hStartAllThreads, startAllCalled, events, tObj, tPc, tQueue, tOut, nextTid,
          opc, oh, lastRet, exitPath, nPosts, heap, sentTo, fault,
          processCalls, retVal, exitCode, nStartAll, tMsg, postCreated, exitParked>>

handleVars == <<m_hThread, m_threadId, m_hThreadStarted, m_hThreadExited>>
threadVars == <<tObj, tPc, tQueue, tOut, nextTid, tMsg>>
ownerVars  == <<opc, oh, lastRet, exitPath, exitParked>>
msgVars    == <<nPosts, heap, sentTo, postCreated>>
runVars    == <<processCalls, retVal, exitCode>>

Payloads == 1..MaxPosts

\* ------------------------------------------------------ kernel primitives
\* CreateEvent(NULL, TRUE, FALSE, name): opens the object of that name when it
\* exists, otherwise creates it manual-reset and nonsignaled.
CreateEvent(ev, name) ==
  IF ev[name].refs > 0
    THEN [ev EXCEPT ![name].refs = @ + 1]
    ELSE [ev EXCEPT ![name] = [refs |-> 1, signaled |-> FALSE]]

\* CloseHandle on an event handle: the object goes away with its last handle.
CloseEvent(ev, name) ==
  IF ev[name].refs > 1
    THEN [ev EXCEPT ![name].refs = @ - 1]
    ELSE [ev EXCEPT ![name] = [refs |-> 0, signaled |-> FALSE]]

\* SetEvent on an open handle of a manual-reset event: stays signaled.
SetEvent(ev, name) == [ev EXCEPT ![name].signaled = TRUE]

\* A thread owns a message queue from PeekMessage until it ends.
HasQueue(t) ==
  t \in Tids /\ tPc[t] \in {"peeked", "sync", "process", "switch", "delete", "exiting",
                            "signaled"}

\* A thread that still executes code.
Alive(t) == t \in Tids /\ (tPc[t] = "entry" \/ HasQueue(t))

\* A thread inside WorkerThread::Process: at GetMessage, in the switch, or
\* between the print and the delete of case WM_THREAD_MSG.
InProcess(t) == t \in Tids /\ tPc[t] \in {"process", "switch", "delete"}

\* ::PostThreadMessage(threadId, msg, wParam, 0): appends to the queue of the
\* thread, fails when the thread has no queue.
Enqueue(q, t, tag, wParam) ==
  IF HasQueue(t) THEN [q EXCEPT ![t] = Append(@, <<tag, wParam>>)] ELSE q

IsCreated(h) == m_hThread[h] # INVALID_HANDLE_VALUE

\* The ThreadParam that thread t was given lives in the frame of the
\* CreateThread() call that spawned t, until that call returns.
ParamLive(t) ==
  \E o \in Owners :
    opc[o] = "create_wait" /\ oh[o] = tObj[t] /\ m_threadId[tObj[t]] = t

Aborted == fault # "none"

\* ASSERT_TRUE(cond) / ASSERT() with a false condition: the fault handler aborts
\* the process.  Its threads, queues, kernel handles and heap go with it; what
\* remains is the failed assertion.
FaultHandler(assertion) ==
  /\ fault' = assertion
  /\ m_hThread' = [h \in Handles |-> INVALID_HANDLE_VALUE]
  /\ m_threadId' = [h \in Handles |-> 0]
  /\ m_hThreadStarted' = [h \in Handles |-> NO_EVENT]
  /\ m_hThreadExited' = [h \in Handles |-> NO_EVENT]
  /\ m_hStartAllThreads' = FALSE
  /\ startAllCalled' = FALSE
  /\ events' = [n \in EventNames |-> [refs |-> 0, signaled |-> FALSE]]
  /\ tObj' = [t \in Tids |-> 0]
  /\ tPc' = [t \in Tids |-> "unborn"]
  /\ tQueue' = [t \in Tids |-> <<>>]
  /\ tOut' = [t \in Tids |-> <<>>]
  /\ nextTid' = 0
  /\ opc' = [o \in Owners |-> "aborted"]
  /\ oh' = [o \in Owners |-> 0]
  /\ lastRet' = "none"
  /\ exitPath' = [h \in Handles |-> "none"]
  /\ nPosts' = 0
  /\ heap' = {}
  /\ sentTo' = [p \in Payloads |-> 0]
  /\ processCalls' = [t \in Tids |-> 0]
  /\ retVal' = [t \in Tids |-> NoCode]
  /\ exitCode' = [t \in Tids |-> NoCode]
  /\ nStartAll' = 0
  /\ tMsg' = [t \in Tids |-> NoMsg]
  /\ postCreated' = [p \in Payloads |-> FALSE]
  /\ exitParked' = [h \in Handles |-> FALSE]
  /\ UNCHANGED SYNC_START

\* ------------------------------------------------------------------ Init
Init ==
  /\ SYNC_START \in {f \in [Handles -> BOOLEAN] : f[1]}
  /\ m_hThread = [h \in Handles |-> INVALID_HANDLE_VALUE]
  /\ m_threadId = [h \in Handles |-> 0]
  /\ m_hThreadStarted = [h \in Handles |-> NO_EVENT]
  /\ m_hThreadExited = [h \in Handles |-> NO_EVENT]
  /\ m_hStartAllThreads = FALSE
  /\ startAllCalled = FALSE
  /\ events = [n \in EventNames |-> [refs |-> 0, signaled |-> FALSE]]
  /\ tObj = [t \in Tids |-> 0]
  /\ tPc = [t \in Tids |-> "unborn"]
  /\ tQueue = [t \in Tids |-> <<>>]
  /\ tOut = [t \in Tids |-> <<>>]
  /\ nextTid = 0
  /\ opc = [o \in Owners |-> "idle"]
  /\ oh = [o \in Owners |-> 0]
  /\ lastRet = "none"
  /\ exitPath = [h \in Handles |-> "none"]
  /\ nPosts = 0
  /\ heap = {}
  /\ sentTo = [p \in Payloads |-> 0]
  /\ fault = "none"
  /\ processCalls = [t \in Tids |-> 0]
  /\ retVal = [t \in Tids |-> NoCode]
  /\ exitCode = [t \in Tids |-> NoCode]
  /\ nStartAll = 0
  /\ tMsg = [t \in Tids |-> NoMsg]
  /\ postCreated = [p \in Payloads |-> FALSE]
  /\ exitParked = [h \in Handles |-> FALSE]

\* ------------------------------------------------- ThreadWin::CreateThread
\* Variant: CreateThread() spawns without asking IsCreated().
CreateThread_Begin_NoCheck(o, h) ==
  /\ ~Aborted /\ opc[o] = "idle"
  /\ nextTid < MaxThreads
  /\ LET t == nextTid + 1 IN
       /\ m_hThreadStarted' = [m_hThreadStarted EXCEPT ![h] = CREATED_EVENT]
       /\ events' = CreateEvent(events, CREATED_EVENT)
       /\ m_hThread' = [m_hThread EXCEPT ![h] = t]
       /\ m_threadId' = [m_threadId EXCEPT ![h] = t]
       /\ tObj' = [tObj EXCEPT ![t] = h]
       /\ tPc' = [tPc EXCEPT ![t] = "entry"]
       /\ nextTid' = t
  /\ exitPath' = [exitPath EXCEPT ![h] = "none"]
  /\ opc' = [opc EXCEPT ![o] = "create_wait"] /\ oh' = [oh EXCEPT ![o] = h]
  /\ UNCHANGED <<SYNC_START, m_hThreadExited, m_hStartAllThreads, startAllCalled,
                 tQueue, tOut, lastRet, msgVars, fault, runVars, nStartAll, tMsg, exitParked>>

\* if (!IsCreated()) { CreateEvent; ::CreateThread; ASSERT_TRUE(m_hThread != NULL);
\* the owner is now about to wait on m_hThreadStarted.
CreateThread_Begin(o, h) ==
  /\ ~Aborted /\ opc[o] = "idle"
  /\ ~IsCreated(h)
  /\ nextTid < MaxThreads
  /\ LET t == nextTid + 1 IN
       /\ m_hThreadStarted' = [m_hThreadStarted EXCEPT ![h] = CREATED_EVENT]
       /\ events' = CreateEvent(events, CREATED_EVENT)
       /\ m_hThread' = [m_hThread EXCEPT ![h] = t]
       /\ m_threadId' = [m_threadId EXCEPT ![h] = t]
       /\ tObj' = [tObj EXCEPT ![t] = h]
       /\ tPc' = [tPc EXCEPT ![t] = "entry"]
       /\ nextTid' = t
  /\ exitPath' = [exitPath EXCEPT ![h] = "none"]
  /\ opc' = [opc EXCEPT ![o] = "create_wait"] /\ oh' = [oh EXCEPT ![o] = h]
  /\ UNCHANGED <<SYNC_START, m_hThreadExited, m_hStartAllThreads, startAllCalled,
                 tQueue, tOut, lastRet, msgVars, fault, runVars, nStartAll, tMsg, exitParked>>

\* ::CreateThread fails: m_hThread is NULL and ASSERT_TRUE(m_hThread != NULL) faults.
CreateThread_SpawnFail(o, h) ==
  /\ ~Aborted /\ opc[o] = "idle"
  /\ ~IsCreated(h)
  /\ FaultHandler("m_hThread != NULL")

\* The thread is already created: return FALSE.
CreateThread_AlreadyCreated(o, h) ==
  /\ ~Aborted /\ opc[o] = "idle"
  /\ IsCreated(h)
  /\ lastRet' = "FALSE"
  /\ UNCHANGED <<SYNC_START, handleVars, m_hStartAllThreads, startAllCalled, events, threadVars,
                 opc, oh, exitPath, msgVars, fault, runVars, nStartAll, exitParked>>

\* Variant: CreateThread() returns without waiting for the created-signal.
CreateThread_Return_NoWait(o, h) ==
  /\ ~Aborted /\ opc[o] = "create_wait" /\ oh[o] = h
  /\ events' = CloseEvent(events, CREATED_EVENT)
  /\ m_hThreadStarted' = [m_hThreadStarted EXCEPT ![h] = NO_EVENT]
  /\ lastRet' = IF m_hThread[h] # NULL THEN "TRUE" ELSE "FALSE"
  /\ opc' = [opc EXCEPT ![o] = "idle"] /\ oh' = [oh EXCEPT ![o] = 0]
  /\ UNCHANGED <<SYNC_START, m_hThread, m_threadId, m_hThreadExited,
                 m_hStartAllThreads, startAllCalled, threadVars, exitPath, msgVars,
                 fault, runVars, nStartAll, exitParked>>

\* WaitForSingleObject(m_hThreadStarted) returned WAIT_OBJECT_0: close the
\* event, return m_hThread ? TRUE : FALSE.
CreateThread_Return(o, h) ==
  /\ ~Aborted /\ opc[o] = "create_wait" /\ oh[o] = h
  /\ events[CREATED_EVENT].signaled
  /\ events' = CloseEvent(events, CREATED_EVENT)
  /\ m_hThreadStarted' = [m_hThreadStarted EXCEPT ![h] = NO_EVENT]
  /\ lastRet' = IF m_hThread[h] # NULL THEN "TRUE" ELSE "FALSE"
  /\ opc' = [opc EXCEPT ![o] = "idle"] /\ oh' = [oh EXCEPT ![o] = 0]
  /\ UNCHANGED <<SYNC_START, m_hThread, m_threadId, m_hThreadExited,
                 m_hStartAllThreads, startAllCalled, threadVars, exitPath, msgVars, fault, runVars, nStartAll, exitParked>>

\* Variant: the failed assertion is only reported; CreateThread() goes on to
\* close the event and return m_hThread ? TRUE : FALSE.
CreateThread_Timeout_Continues(o, h) ==
  /\ ~Aborted /\ opc[o] = "create_wait" /\ oh[o] = h
  /\ ~events[CREATED_EVENT].signaled
  /\ events' = CloseEvent(events, CREATED_EVENT)
  /\ m_hThreadStarted' = [m_hThreadStarted EXCEPT ![h] = NO_EVENT]
  /\ lastRet' = IF m_hThread[h] # NULL THEN "TRUE" ELSE "FALSE"
  /\ opc' = [opc EXCEPT ![o] = "idle"] /\ oh' = [oh EXCEPT ![o] = 0]
  /\ UNCHANGED <<SYNC_START, m_hThread, m_threadId, m_hThreadExited,
                 m_hStartAllThreads, startAllCalled, threadVars, exitPath, msgVars,
                 fault, runVars, nStartAll, exitParked>>

\* The wait timed out: ASSERT_TRUE(err == WAIT_OBJECT_0) faults.
CreateThread_Timeout(o, h) ==
  /\ ~Aborted /\ opc[o] = "create_wait" /\ oh[o] = h
  /\ ~events[CREATED_EVENT].signaled
  /\ FaultHandler("CreateThread: err == WAIT_OBJECT_0")

\* ---------------------------------------------- ThreadWin::StartAllThreads
\* Variant: the release-all event does not stay signaled (an auto-reset event
\* with nobody waiting, or a pulse).
StartAllThreads_Pulse(o) ==
  /\ ~Aborted /\ opc[o] = "idle"
  /\ nStartAll < MaxStartAll
  /\ m_hStartAllThreads' = FALSE
  /\ startAllCalled' = TRUE
  /\ nStartAll' = nStartAll + 1
  /\ lastRet' = "void"
  /\ UNCHANGED <<SYNC_START, handleVars, events, threadVars, opc, oh, exitPath,
                 msgVars, fault, runVars, exitParked>>

\* Variant: a call on an event that is already set resets it.
StartAllThreads_Toggle(o) ==
  /\ ~Aborted /\ opc[o] = "idle"
  /\ nStartAll < MaxStartAll
  /\ m_hStartAllThreads' = ~m_hStartAllThreads
  /\ startAllCalled' = TRUE
  /\ nStartAll' = nStartAll + 1
  /\ lastRet' = "void"
  /\ UNCHANGED <<SYNC_START, handleVars, events, threadVars, opc, oh, exitPath,
                 msgVars, fault, runVars, exitParked>>

StartAllThreads(o) ==
  /\ ~Aborted /\ opc[o] = "idle"
  /\ nStartAll < MaxStartAll
  /\ m_hStartAllThreads' = TRUE
  /\ startAllCalled' = TRUE
  /\ nStartAll' = nStartAll + 1
  /\ lastRet' = "void"
  /\ UNCHANGED <<SYNC_START, handleVars, events, threadVars, opc, oh, exitPath,
                 msgVars, fault, runVars, exitParked>>

\* ------------------------------------------------ owner: PostThreadMessage
\* threadMsg = new ThreadMsg(); h.PostThreadMessage(WM_THREAD_MSG, threadMsg):
\* ::PostThreadMessage(m_threadId, msg, data, 0).  A post to a thread without a
\* queue fails and leaves the message with the caller.
PostThreadMessage(o, h) ==
  /\ ~Aborted /\ opc[o] = "idle"
  /\ nPosts < MaxPosts
  /\ LET p == nPosts + 1
         t == m_threadId[h]
     IN
       /\ nPosts' = p
       /\ heap' = heap \cup {p}
       /\ tQueue' = Enqueue(tQueue, t, WM_THREAD_MSG, p)
       /\ sentTo' = IF HasQueue(t) THEN [sentTo EXCEPT ![p] = t] ELSE sentTo
       /\ postCreated' = [postCreated EXCEPT ![p] = IsCreated(h)]
       /\ lastRet' = IF HasQueue(t) THEN "posted" ELSE "post failed"
  /\ UNCHANGED <<SYNC_START, handleVars, m_hStartAllThreads, startAllCalled, events, tObj, tPc,
                 tOut, nextTid, opc, oh, exitPath, fault, runVars, nStartAll, tMsg, exitParked>>

\* h.PostThreadMessage(WM_QUIT): a message without data that makes GetMessage
\* in the loop return 0.
PostThreadMessage_Quit(o, h) ==
  /\ ~Aborted /\ opc[o] = "idle"
  /\ nPosts < MaxPosts
  /\ nPosts' = nPosts + 1
  /\ tQueue' = Enqueue(tQueue, m_threadId[h], WM_QUIT, NULL)
  /\ lastRet' = IF HasQueue(m_threadId[h]) THEN "posted" ELSE "post failed"
  /\ UNCHANGED <<SYNC_START, handleVars, m_hStartAllThreads, startAllCalled, events, tObj, tPc,
                 tOut, nextTid, opc, oh, exitPath, heap, sentTo, fault, runVars, nStartAll, tMsg, postCreated, exitParked>>

\* ---------------------------------------------------- ThreadWin::ExitThread
\* m_hThread is INVALID_HANDLE_VALUE: nothing to do.
ExitThread_NotCreated(o, h) ==
  /\ ~Aborted /\ opc[o] = "idle"
  /\ m_hThread[h] = INVALID_HANDLE_VALUE
  /\ exitPath' = [exitPath EXCEPT ![h] = "noop"]
  /\ lastRet' = "void"
  /\ UNCHANGED <<SYNC_START, handleVars, m_hStartAllThreads, startAllCalled, events,
                 threadVars, opc, oh, msgVars, fault, runVars, nStartAll, exitParked>>

\* Variant: the stop message is put in front of the messages already queued.
ExitThread_Begin_Front(o, h) ==
  /\ ~Aborted /\ opc[o] = "idle"
  /\ m_hThread[h] # INVALID_HANDLE_VALUE
  /\ m_hThreadExited' = [m_hThreadExited EXCEPT ![h] = EXITED_EVENT]
  /\ events' = CreateEvent(events, EXITED_EVENT)
  /\ tQueue' = IF HasQueue(m_threadId[h])
                 THEN [tQueue EXCEPT ![m_threadId[h]] = <<<<WM_EXIT_THREAD, NULL>>>> \o @]
                 ELSE tQueue
  /\ exitParked' = [exitParked EXCEPT ![h] = SYNC_START[h] /\ ~startAllCalled]
  /\ opc' = [opc EXCEPT ![o] = "exit_wait"] /\ oh' = [oh EXCEPT ![o] = h]
  /\ UNCHANGED <<SYNC_START, m_hThread, m_threadId, m_hThreadStarted,
                 m_hStartAllThreads, startAllCalled, tObj, tPc, tOut, nextTid,
                 lastRet, exitPath, msgVars, fault, runVars, nStartAll, tMsg>>

\* CreateEvent(m_hThreadExited); PostThreadMessage(WM_EXIT_THREAD); the owner
\* is now about to wait on m_hThreadExited.
ExitThread_Begin(o, h) ==
  /\ ~Aborted /\ opc[o] = "idle"
  /\ m_hThread[h] # INVALID_HANDLE_VALUE
  /\ m_hThreadExited' = [m_hThreadExited EXCEPT ![h] = EXITED_EVENT]
  /\ events' = CreateEvent(events, EXITED_EVENT)
  /\ tQueue' = Enqueue(tQueue, m_threadId[h], WM_EXIT_THREAD, NULL)
  /\ exitParked' = [exitParked EXCEPT ![h] = SYNC_START[h] /\ ~startAllCalled]
  /\ opc' = [opc EXCEPT ![o] = "exit_wait"] /\ oh' = [oh EXCEPT ![o] = h]
  /\ UNCHANGED <<SYNC_START, m_hThread, m_threadId, m_hThreadStarted,
                 m_hStartAllThreads, startAllCalled, tObj, tPc, tOut, nextTid, lastRet, exitPath,
                 msgVars, fault, runVars, nStartAll, tMsg>>

\* Variant: m_hThreadExited is set to INVALID_HANDLE_VALUE without CloseHandle.
ExitThread_Close_LeakEvent(o, h, path) ==
  /\ m_hThread' = [m_hThread EXCEPT ![h] = INVALID_HANDLE_VALUE]
  /\ events' = events
  /\ m_hThreadExited' = [m_hThreadExited EXCEPT ![h] = NO_EVENT]
  /\ exitPath' = [exitPath EXCEPT ![h] = path]
  /\ lastRet' = "void"
  /\ opc' = [opc EXCEPT ![o] = "idle"] /\ oh' = [oh EXCEPT ![o] = 0]

\* Variant: m_hThread is closed but not set to INVALID_HANDLE_VALUE.
ExitThread_Close_KeepHandle(o, h, path) ==
  /\ m_hThread' = m_hThread
  /\ events' = CloseEvent(events, EXITED_EVENT)
  /\ m_hThreadExited' = [m_hThreadExited EXCEPT ![h] = NO_EVENT]
  /\ exitPath' = [exitPath EXCEPT ![h] = path]
  /\ lastRet' = "void"
  /\ opc' = [opc EXCEPT ![o] = "idle"] /\ oh' = [oh EXCEPT ![o] = 0]

\* ::CloseHandle(m_hThread); ::CloseHandle(m_hThreadExited); both invalidated.
ExitThread_Close(o, h, path) ==
  /\ m_hThread' = [m_hThread EXCEPT ![h] = INVALID_HANDLE_VALUE]
  /\ events' = CloseEvent(events, EXITED_EVENT)
  /\ m_hThreadExited' = [m_hThreadExited EXCEPT ![h] = NO_EVENT]
  /\ exitPath' = [exitPath EXCEPT ![h] = path]
  /\ lastRet' = "void"
  /\ opc' = [opc EXCEPT ![o] = "idle"] /\ oh' = [oh EXCEPT ![o] = 0]

\* The wait on m_hThreadExited returned WAIT_OBJECT_0.
ExitThread_Signaled(o, h) ==
  /\ ~Aborted /\ opc[o] = "exit_wait" /\ oh[o] = h
  /\ events[EXITED_EVENT].signaled
  /\ ExitThread_Close(o, h, "graceful")
  /\ UNCHANGED <<SYNC_START, m_threadId, m_hThreadStarted, m_hStartAllThreads, startAllCalled,
                 threadVars, msgVars, fault, runVars, nStartAll, exitParked>>

\* Variant: the wait on m_hThreadExited has no timeout (INFINITE).
ExitThread_Timeout_Infinite(o, h) ==
  /\ ~Aborted /\ opc[o] = "exit_wait" /\ oh[o] = h
  /\ FALSE
  /\ UNCHANGED vars

\* The wait on m_hThreadExited returned WAIT_TIMEOUT.
ExitThread_Timeout(o, h) ==
  /\ ~Aborted /\ opc[o] = "exit_wait" /\ oh[o] = h
  /\ ~events[EXITED_EVENT].signaled
  /\ opc' = [opc EXCEPT ![o] = "exit_terminate"]
  /\ UNCHANGED <<SYNC_START, handleVars, m_hStartAllThreads, startAllCalled, events, threadVars,
                 oh, lastRet, exitPath, msgVars, fault, runVars, nStartAll, exitParked>>

\* Variant: the timeout path closes the handles without TerminateThread.
ExitThread_Terminate_NoKill(o, h) ==
  /\ ~Aborted /\ opc[o] = "exit_terminate" /\ oh[o] = h
  /\ ExitThread_Close(o, h, "forced")
  /\ UNCHANGED <<SYNC_START, m_threadId, m_hThreadStarted, m_hStartAllThreads,
                 startAllCalled, threadVars, msgVars, fault, runVars, nStartAll, exitParked>>

\* ::TerminateThread(m_hThread, 1), then the two CloseHandle calls.  The
\* thread is stopped wherever it is; its queue and its locals go with it.
ExitThread_Terminate(o, h) ==
  /\ ~Aborted /\ opc[o] = "exit_terminate" /\ oh[o] = h
  /\ tPc' = IF Alive(m_hThread[h]) THEN [tPc EXCEPT ![m_hThread[h]] = "killed"] ELSE tPc
  /\ tQueue' = IF Alive(m_hThread[h]) THEN [tQueue EXCEPT ![m_hThread[h]] = <<>>] ELSE tQueue
  /\ tMsg' = IF Alive(m_hThread[h]) THEN [tMsg EXCEPT ![m_hThread[h]] = NoMsg] ELSE tMsg
  /\ exitCode' = IF Alive(m_hThread[h]) THEN [exitCode EXCEPT ![m_hThread[h]] = 1] ELSE exitCode
  /\ ExitThread_Close(o, h, "forced")
  /\ UNCHANGED <<SYNC_START, m_threadId, m_hThreadStarted, m_hStartAllThreads, startAllCalled,
                 tObj, tOut, nextTid, msgVars, fault, processCalls, retVal, nStartAll, exitParked>>

\* ---------------------------------------------------- ThreadWin::RunProcess
\* Extract the ThreadWin pointer from ThreadParam; PeekMessage forces the
\* system to create the message queue.  A ThreadParam whose frame is gone is
\* a dangling read: the thread picks up any ThreadWin, or the process crashes.
RunProcess_PeekMessage(t) ==
  /\ ~Aborted /\ tPc[t] = "entry"
  /\ IF ParamLive(t)
       THEN /\ tPc' = [tPc EXCEPT ![t] = "peeked"]
            /\ UNCHANGED <<SYNC_START, handleVars, m_hStartAllThreads, startAllCalled,
                           events, tObj, tQueue, tOut, nextTid, ownerVars, msgVars,
                           fault, runVars, nStartAll, tMsg>>
       ELSE \/ \E h \in Handles :
                 /\ tObj' = [tObj EXCEPT ![t] = h]
                 /\ tPc' = [tPc EXCEPT ![t] = "peeked"]
                 /\ UNCHANGED <<SYNC_START, handleVars, m_hStartAllThreads,
                                startAllCalled, events, tQueue, tOut, nextTid,
                                ownerVars, msgVars, fault, runVars, nStartAll, tMsg>>
            \/ FaultHandler("RunProcess: read of a dead ThreadParam")

\* SetEvent(thread->m_hThreadStarted); ASSERT_TRUE(err != 0).
RunProcess_SetStarted(t) ==
  /\ ~Aborted /\ tPc[t] = "peeked"
  /\ IF m_hThreadStarted[tObj[t]] # NO_EVENT
       THEN /\ events' = SetEvent(events, m_hThreadStarted[tObj[t]])
            /\ tPc' = [tPc EXCEPT ![t] = "sync"]
            /\ UNCHANGED <<SYNC_START, handleVars, m_hStartAllThreads, startAllCalled, tObj, tQueue,
                           tOut, nextTid, ownerVars, msgVars, fault, runVars, nStartAll, tMsg>>
       ELSE FaultHandler("SetEvent(m_hThreadStarted): err != 0")

\* Variant: a sync-start thread waits on a handle that is never signaled.
RunProcess_EnterProcess_NeverReleased(t) ==
  /\ ~Aborted /\ tPc[t] = "sync"
  /\ ~SYNC_START[tObj[t]]
  /\ tPc' = [tPc EXCEPT ![t] = "process"]
  /\ processCalls' = [processCalls EXCEPT ![t] = @ + 1]
  /\ UNCHANGED <<SYNC_START, handleVars, m_hStartAllThreads, startAllCalled, events,
                 tObj, tQueue, tOut, nextTid, ownerVars, msgVars, fault, retVal, exitCode, nStartAll, tMsg>>

\* Variant: the thread calls Process() without looking at SYNC_START.
RunProcess_EnterProcess_NoBarrier(t) ==
  /\ ~Aborted /\ tPc[t] = "sync"
  /\ tPc' = [tPc EXCEPT ![t] = "process"]
  /\ processCalls' = [processCalls EXCEPT ![t] = @ + 1]
  /\ UNCHANGED <<SYNC_START, handleVars, m_hStartAllThreads, startAllCalled, events,
                 tObj, tQueue, tOut, nextTid, ownerVars, msgVars, fault, retVal, exitCode, nStartAll, tMsg>>

\* if (SYNC_START) WaitForSingleObject(m_hStartAllThreads) returned
\* WAIT_OBJECT_0; the thread calls Process().
RunProcess_EnterProcess(t) ==
  /\ ~Aborted /\ tPc[t] = "sync"
  /\ SYNC_START[tObj[t]] => m_hStartAllThreads
  /\ tPc' = [tPc EXCEPT ![t] = "process"]
  /\ processCalls' = [processCalls EXCEPT ![t] = @ + 1]
  /\ UNCHANGED <<SYNC_START, handleVars, m_hStartAllThreads, startAllCalled, events, tObj, tQueue,
                 tOut, nextTid, ownerVars, msgVars, fault, retVal, exitCode, nStartAll, tMsg>>

\* The barrier wait timed out: ASSERT_TRUE(err == WAIT_OBJECT_0) faults.
RunProcess_BarrierTimeout(t) ==
  /\ ~Aborted /\ tPc[t] = "sync"
  /\ SYNC_START[tObj[t]] /\ ~m_hStartAllThreads
  /\ FaultHandler("RunProcess: err == WAIT_OBJECT_0")

\* Variant: the exit event is pulsed: it releases only a wait that has already
\* begun and does not stay set.
RunProcess_SetExited_Pulse(t) ==
  /\ ~Aborted /\ tPc[t] = "exiting"
  /\ m_hThreadExited[tObj[t]] # NO_EVENT
  /\ tPc' = [tPc EXCEPT ![t] = "signaled"]
  /\ UNCHANGED <<SYNC_START, handleVars, m_hStartAllThreads, startAllCalled, events,
                 tObj, tQueue, tOut, nextTid, tMsg, ownerVars, msgVars, fault, runVars,
                 nStartAll>>

\* Variant: RunProcess calls Process() again when it returns.
RunProcess_SetExited_CallsAgain(t) ==
  /\ ~Aborted /\ tPc[t] = "exiting"
  /\ tPc' = [tPc EXCEPT ![t] = "process"]
  /\ processCalls' = [processCalls EXCEPT ![t] = @ + 1]
  /\ UNCHANGED <<SYNC_START, handleVars, m_hStartAllThreads, startAllCalled, events,
                 tObj, tQueue, tOut, nextTid, tMsg, ownerVars, msgVars, fault, retVal,
                 exitCode, nStartAll>>

\* Process() returned: SetEvent(thread->m_hThreadExited); ASSERT_TRUE(err != 0).
\* The thread has signaled and still runs: it has yet to return.
RunProcess_SetExited(t) ==
  /\ ~Aborted /\ tPc[t] = "exiting"
  /\ IF m_hThreadExited[tObj[t]] # NO_EVENT
       THEN /\ events' = SetEvent(events, m_hThreadExited[tObj[t]])
            /\ tPc' = [tPc EXCEPT ![t] = "signaled"]
            /\ UNCHANGED <<SYNC_START, handleVars, m_hStartAllThreads, startAllCalled,
                           tObj, tQueue, tOut, nextTid, tMsg, ownerVars, msgVars, fault,
                           runVars, nStartAll>>
       ELSE FaultHandler("SetEvent(m_hThreadExited): err != 0")

\* return retVal: the thread ends with the value of Process() as exit code,
\* and its message queue goes with it.
RunProcess_Return(t) ==
  /\ ~Aborted /\ tPc[t] = "signaled"
  /\ tPc' = [tPc EXCEPT ![t] = "done"]
  /\ tQueue' = [tQueue EXCEPT ![t] = <<>>]
  /\ exitCode' = [exitCode EXCEPT ![t] = retVal[t]]
  /\ UNCHANGED <<SYNC_START, handleVars, m_hStartAllThreads, startAllCalled, events,
                 tObj, tOut, nextTid, tMsg, ownerVars, msgVars, fault, processCalls,
                 retVal, nStartAll>>

\* ---------------------------------------------------- WorkerThread::Process
\* GetMessage removed the first message of the queue and returned nonzero
\* (it blocks while the queue is empty): msg holds the message.
Process_GetMessage(t) ==
  /\ ~Aborted /\ tPc[t] = "process"
  /\ tQueue[t] # <<>> /\ Head(tQueue[t])[1] # WM_QUIT
  /\ tMsg' = [tMsg EXCEPT ![t] = Head(tQueue[t])]
  /\ tQueue' = [tQueue EXCEPT ![t] = Tail(@)]
  /\ tPc' = [tPc EXCEPT ![t] = "switch"]
  /\ UNCHANGED <<SYNC_START, handleVars, m_hStartAllThreads, startAllCalled, events,
                 tObj, tOut, nextTid, ownerVars, msgVars, fault, runVars, nStartAll>>

\* switch (msg.message) on a message other than WM_EXIT_THREAD.
\* case WM_THREAD_MSG: ASSERT_TRUE(wParam != NULL), print the message with the
\* thread name; the delete is still to come.  default: ASSERT().
Process_ThreadMsg(t) ==
  /\ ~Aborted /\ tPc[t] = "switch"
  /\ tMsg[t][1] # WM_EXIT_THREAD
  /\ LET tag == tMsg[t][1]
         p == tMsg[t][2]
     IN
       IF tag # WM_THREAD_MSG THEN FaultHandler("Process: default")
       ELSE IF p = NULL THEN FaultHandler("msg.wParam != NULL")
       ELSE /\ tOut' = [tOut EXCEPT ![t] = Append(@, <<p, THREAD_NAME(tObj[t])>>)]
            /\ tPc' = [tPc EXCEPT ![t] = "delete"]
            /\ UNCHANGED <<SYNC_START, handleVars, m_hStartAllThreads, startAllCalled,
                           events, tObj, tQueue, nextTid, tMsg, ownerVars, msgVars, fault,
                           runVars, nStartAll>>

\* Variant: the loop goes back to GetMessage without deleting the message.
Process_Delete_NoDelete(t) ==
  /\ ~Aborted /\ tPc[t] = "delete"
  /\ tMsg' = [tMsg EXCEPT ![t] = NoMsg]
  /\ tPc' = [tPc EXCEPT ![t] = "process"]
  /\ UNCHANGED <<SYNC_START, handleVars, m_hStartAllThreads, startAllCalled, events,
                 tObj, tQueue, tOut, nextTid, ownerVars, msgVars, fault, runVars,
                 nStartAll>>

\* delete threadMsg; break: back to GetMessage.
Process_Delete(t) ==
  /\ ~Aborted /\ tPc[t] = "delete"
  /\ heap' = heap \ {tMsg[t][2]}
  /\ tMsg' = [tMsg EXCEPT ![t] = NoMsg]
  /\ tPc' = [tPc EXCEPT ![t] = "process"]
  /\ UNCHANGED <<SYNC_START, handleVars, m_hStartAllThreads, startAllCalled, events,
                 tObj, tQueue, tOut, nextTid, ownerVars, nPosts, sentTo, postCreated,
                 fault, runVars, nStartAll>>

\* case WM_EXIT_THREAD: return 0.
Process_ExitThread(t) ==
  /\ ~Aborted /\ tPc[t] = "switch"
  /\ tMsg[t][1] = WM_EXIT_THREAD
  /\ tMsg' = [tMsg EXCEPT ![t] = NoMsg]
  /\ tPc' = [tPc EXCEPT ![t] = "exiting"]
  /\ retVal' = [retVal EXCEPT ![t] = 0]
  /\ UNCHANGED <<SYNC_START, handleVars, m_hStartAllThreads, startAllCalled, events,
                 tObj, tQueue, tOut, nextTid, ownerVars, msgVars, fault, processCalls,
                 exitCode, nStartAll>>

\* GetMessage returned 0 (WM_QUIT): the loop ends, return 0.
Process_GetMessageZero(t) ==
  /\ ~Aborted /\ tPc[t] = "process"
  /\ tQueue[t] # <<>> /\ Head(tQueue[t])[1] = WM_QUIT
  /\ tQueue' = [tQueue EXCEPT ![t] = Tail(@)]
  /\ tPc' = [tPc EXCEPT ![t] = "exiting"]
  /\ retVal' = [retVal EXCEPT ![t] = 0]
  /\ UNCHANGED <<SYNC_START, handleVars, m_hStartAllThreads, startAllCalled, events,
                 tObj, tOut, nextTid, tMsg, ownerVars, msgVars, fault, processCalls,
                 exitCode, nStartAll>>

\* ------------------------------------------------------------------ Next
Next ==
  \/ \E h \in Handles : CreateThread_Begin(Main, h)
  \/ \E h \in Handles : CreateThread_SpawnFail(Main, h)
  \/ \E h \in Handles : CreateThread_AlreadyCreated(Main, h)
  \/ \E h \in Handles : CreateThread_Return(Main, h)
  \/ \E h \in Handles : CreateThread_Timeout(Main, h)
  \/ StartAllThreads(Main)
  \/ \E h \in Handles : PostThreadMessage(Main, h)
  \/ \E h \in Handles : ExitThread_NotCreated(Main, h)
  \/ \E h \in Handles : ExitThread_Begin(Main, h)
  \/ \E h \in Handles : ExitThread_Signaled(Main, h)
  \/ \E h \in Handles : ExitThread_Timeout(Main, h)
  \/ \E h \in Handles : ExitThread_Terminate(Main, h)
  \/ \E t \in Tids : RunProcess_PeekMessage(t)
  \/ \E t \in Tids : RunProcess_SetStarted(t)
  \/ \E t \in Tids : RunProcess_EnterProcess(t)
  \/ \E t \in Tids : RunProcess_BarrierTimeout(t)
  \/ \E t \in Tids : RunProcess_SetExited(t)
  \/ \E t \in Tids : RunProcess_Return(t)
  \/ \E t \in Tids : Process_GetMessage(t)
  \/ \E t \in Tids : Process_ThreadMsg(t)
  \/ \E t \in Tids : Process_Delete(t)
  \/ \E t \in Tids : Process_ExitThread(t)

Spec == Init /\ [][Next]_vars

\* ------------------------------------------------------------- scheduling
\* A bounded wait of the owner returns: with the event signaled, or timed out.
OwnerStep ==
  \E o \in Owners, h \in Handles :
    \/ CreateThread_Return(o, h)
    \/ CreateThread_Timeout(o, h)
    \/ ExitThread_Signaled(o, h)
    \/ ExitThread_Timeout(o, h)
    \/ ExitThread_Terminate(o, h)

\* A spawned thread that can run is scheduled; its barrier wait is bounded too.
WorkerStep(t) ==
  \/ RunProcess_PeekMessage(t)
  \/ RunProcess_SetStarted(t)
  \/ RunProcess_EnterProcess(t)
  \/ RunProcess_BarrierTimeout(t)
  \/ RunProcess_SetExited(t)
  \/ RunProcess_Return(t)
  \/ Process_GetMessage(t)
  \/ Process_ThreadMsg(t)
  \/ Process_Delete(t)
  \/ Process_ExitThread(t)

\* Only the owner's bounded waits are assumed to return; a worker may be
\* starved or hang for as long as it likes.
OwnerFairSpec == Spec /\ WF_vars(OwnerStep)

\* The owner's waits return and every runnable worker is scheduled.
FairSpec == Spec /\ WF_vars(OwnerStep) /\ \A t \in Tids : WF_vars(WorkerStep(t))

\* ------------------------------------------------------------------ main
\* main(): CreateThread on both workers, StartAllThreads, one message to each
\* worker, ExitThread on both, in that order, on one thread.
InitMain == Init /\ SYNC_START = [h \in Handles |-> TRUE]

Main_Create1 == nextTid = 0 /\ CreateThread_Begin(Main, 1)
Main_Create1_SpawnFail == nextTid = 0 /\ CreateThread_SpawnFail(Main, 1)
Main_Create2 == m_threadId[1] # 0 /\ m_threadId[2] = 0 /\ CreateThread_Begin(Main, 2)
Main_Create2_SpawnFail ==
  m_threadId[1] # 0 /\ m_threadId[2] = 0 /\ CreateThread_SpawnFail(Main, 2)
Main_StartAll == m_threadId[2] # 0 /\ ~startAllCalled /\ StartAllThreads(Main)
Main_Post1 == startAllCalled /\ nPosts = 0 /\ PostThreadMessage(Main, 1)
\* Variant: the second message goes to workerThread1 as well.
Main_Post2_ToWorker1 == nPosts = 1 /\ PostThreadMessage(Main, 1)
Main_Post2 == nPosts = 1 /\ PostThreadMessage(Main, 2)
Main_Exit1 == nPosts = 2 /\ exitPath[1] = "none" /\ ExitThread_Begin(Main, 1)
Main_Exit2 == exitPath[1] # "none" /\ exitPath[2] = "none" /\ ExitThread_Begin(Main, 2)

NextMain ==
  \/ Main_Create1
  \/ Main_Create1_SpawnFail
  \/ Main_Create2
  \/ Main_Create2_SpawnFail
  \/ Main_StartAll
  \/ Main_Post1
  \/ Main_Post2
  \/ Main_Exit1
  \/ Main_Exit2
  \/ \E h \in Handles : CreateThread_Return(Main, h)
  \/ \E h \in Handles : CreateThread_Timeout(Main, h)
  \/ \E h \in Handles : ExitThread_Signaled(Main, h)
  \/ \E h \in Handles : ExitThread_Timeout(Main, h)
  \/ \E h \in Handles : ExitThread_Terminate(Main, h)
  \/ \E t \in Tids : RunProcess_PeekMessage(t)
  \/ \E t \in Tids : RunProcess_SetStarted(t)
  \/ \E t \in Tids : RunProcess_EnterProcess(t)
  \/ \E t \in Tids : RunProcess_BarrierTimeout(t)
  \/ \E t \in Tids : RunProcess_SetExited(t)
  \/ \E t \in Tids : RunProcess_Return(t)
  \/ \E t \in Tids : Process_GetMessage(t)
  \/ \E t \in Tids : Process_ThreadMsg(t)
  \/ \E t \in Tids : Process_Delete(t)
  \/ \E t \in Tids : Process_ExitThread(t)

SpecMain == InitMain /\ [][NextMain]_vars

\* ------------------------------------------- a loop that ends on its own
\* As Spec, and the owner may also post WM_QUIT, on which the loop of
\* WorkerThread::Process ends without a stop message.
NextQuit ==
  \/ Next
  \/ \E h \in Handles : PostThreadMessage_Quit(Main, h)
  \/ \E t \in Tids : Process_GetMessageZero(t)

SpecQuit == Init /\ [][NextQuit]_vars

\* ------------------------------------------- a release from another thread
\* As Spec, and a second thread may call the static StartAllThreads() at any
\* moment, also while the owner is blocked inside CreateThread() or ExitThread().
NextRelease ==
  \/ Next
  \/ StartAllThreads(Releaser)

SpecRelease == Init /\ [][NextRelease]_vars

\* ------------------------------------------------- one owner per handle
\* Two owner threads, each driving its own ThreadWin: owner 1 workerThread1,
\* owner 2 workerThread2.  Their calls interleave.
NextConc ==
  \/ \E o \in Owners : CreateThread_Begin(o, o)
  \/ \E o \in Owners : CreateThread_SpawnFail(o, o)
  \/ \E o \in Owners : CreateThread_AlreadyCreated(o, o)
  \/ \E o \in Owners : CreateThread_Return(o, o)
  \/ \E o \in Owners : CreateThread_Timeout(o, o)
  \/ StartAllThreads(Main)
  \/ \E o \in Owners : PostThreadMessage(o, o)
  \/ \E o \in Owners : ExitThread_NotCreated(o, o)
  \/ \E o \in Owners : ExitThread_Begin(o, o)
  \/ \E o \in Owners : ExitThread_Signaled(o, o)
  \/ \E o \in Owners : ExitThread_Timeout(o, o)
  \/ \E o \in Owners : ExitThread_Terminate(o, o)
  \/ \E t \in Tids : RunProcess_PeekMessage(t)
  \/ \E t \in Tids : RunProcess_SetStarted(t)
  \/ \E t \in Tids : RunProcess_EnterProcess(t)
  \/ \E t \in Tids : RunProcess_BarrierTimeout(t)
  \/ \E t \in Tids : RunProcess_SetExited(t)
  \/ \E t \in Tids : RunProcess_Return(t)
  \/ \E t \in Tids : Process_GetMessage(t)
  \/ \E t \in Tids : Process_ThreadMsg(t)
  \/ \E t \in Tids : Process_Delete(t)
  \/ \E t \in Tids : Process_ExitThread(t)

SpecConc == Init /\ [][NextConc]_vars

\* ================================================================ claims
SyncThreads == {t \in Tids : tObj[t] \in Handles /\ SYNC_START[tObj[t]]}

\* Thread t has called Process(): it is in its loop, or has returned from it.
PastBarrier(t) == InProcess(t) \/ tPc[t] \in {"exiting", "signaled", "done"}

\* C1: once CreateThread() on h has returned, the thread of h has been through
\* PeekMessage, and as long as h is created its message queue exists whenever
\* the owner is free to post: a post to a created handle finds the queue.
C1_QueueExists ==
  \A h \in Handles :
    /\ (m_threadId[h] # 0 /\ ~(opc[Main] = "create_wait" /\ oh[Main] = h))
          => tPc[m_threadId[h]] \notin {"unborn", "entry"}
    /\ (opc[Main] = "idle" /\ IsCreated(h)) => HasQueue(m_threadId[h])

\* C1 witness: a post to a created handle has just succeeded.
C1_Witness ==
  /\ lastRet = "posted"
  /\ \E p \in Payloads : sentTo[p] # 0 /\ IsCreated(tObj[sentTo[p]])

\* C2: a thread of a sync-start handle is inside Process() (or past it) only
\* when StartAllThreads() has been invoked.
C2_Barrier ==
  \A t \in SyncThreads : PastBarrier(t) => startAllCalled

\* C2 witness: a sync-start worker runs its loop after the release.
C2_Witness ==
  \E t \in SyncThreads : tPc[t] = "process" /\ startAllCalled

\* C3: once StartAllThreads() has been called, a sync-start thread that reaches
\* the barrier is not blocked: its step into Process() is enabled and its
\* barrier wait cannot time out, with no further StartAllThreads() call.
C3_LateJoinerPasses ==
  \A t \in SyncThreads :
    (startAllCalled /\ tPc[t] = "sync")
      => /\ ENABLED RunProcess_EnterProcess(t)
         /\ ~ENABLED RunProcess_BarrierTimeout(t)

\* C3 witness: the thread of a sync-start handle created after the release is
\* already in its loop while CreateThread() has not yet returned.
C3_Witness ==
  /\ opc[Main] = "create_wait" /\ startAllCalled
  /\ SYNC_START[oh[Main]] /\ tPc[m_hThread[oh[Main]]] = "process"

\* C4: once StartAllThreads() has been called, a sync-start worker at the
\* barrier wait enters Process(), unless it is terminated or the process is
\* aborted first.
C4_ReleaseLiveness ==
  \A t \in Tids :
    (startAllCalled /\ tPc[t] = "sync" /\ SYNC_START[tObj[t]])
      ~> (PastBarrier(t) \/ tPc[t] = "killed" \/ Aborted)

\* C4 witness: two released sync-start workers are in their loops at once.
C4_Witness ==
  \E t1, t2 \in SyncThreads :
    t1 # t2 /\ tPc[t1] = "process" /\ tPc[t2] = "process" /\ startAllCalled

\* ExitThread() on h has returned and h has not been created again.
Joined(h) == exitPath[h] \in {"graceful", "forced"}

\* C5: when ExitThread() on a created handle has returned, the worker has left
\* its loop (it returned from Process() and set the exit-signal, or it was
\* terminated) and both m_hThread and m_hThreadExited are closed and invalid;
\* a worker that has not yet set the exit-signal always belongs to a handle
\* that is still open.
C5_JoinContract ==
  /\ \A h \in Handles :
       Joined(h) =>
         /\ tPc[m_threadId[h]] \in {"signaled", "done", "killed"}
         /\ (exitPath[h] = "graceful" => tPc[m_threadId[h]] \in {"signaled", "done"})
         /\ m_hThread[h] = INVALID_HANDLE_VALUE
         /\ m_hThreadExited[h] = NO_EVENT
  /\ \A t \in Tids : (Alive(t) /\ tPc[t] # "signaled") => m_hThread[tObj[t]] = t

\* C5 witness: one handle was joined gracefully and the other by termination.
C5_Witness ==
  \E h, g \in Handles :
    /\ exitPath[h] = "graceful" /\ tPc[m_threadId[h]] = "done"
    /\ exitPath[g] = "forced" /\ tPc[m_threadId[g]] = "killed"

\* C6: an ExitThread() call on a handle whose ExitThread() has already returned
\* changes nothing: no event is created, no stop message posted, no handle
\* closed, no thread touched.
C6_ExitIdempotent ==
  [][\A h \in Handles :
       ((Joined(h) \/ (exitPath[h] = "noop" /\ m_threadId[h] # 0))
          /\ (ExitThread_Begin(Main, h) \/ ExitThread_NotCreated(Main, h)))
         => UNCHANGED <<handleVars, m_hStartAllThreads, events, threadVars, opc, oh,
                        msgVars, fault, runVars, nStartAll>>]_vars

\* C6 witness: a second ExitThread() has returned on a handle that had a thread.
C6_Witness ==
  \E h \in Handles :
    /\ exitPath[h] = "noop" /\ m_threadId[h] # 0
    /\ tPc[m_threadId[h]] \in {"done", "killed"}
    /\ m_hThread[h] = INVALID_HANDLE_VALUE /\ m_hThreadExited[h] = NO_EVENT

InExitThread(h) == \E o \in Owners : opc[o] \in {"exit_wait", "exit_terminate"} /\ oh[o] = h

\* C7 as stated: every ExitThread() call on a created handle returns.
C7_ExitReturns ==
  \A h \in Handles : InExitThread(h) ~> (opc[Main] = "idle")

\* C7, amended: every ExitThread() call on a created handle returns, unless
\* the fault handler aborts the process first.
C7_ExitReturnsOrAbort ==
  \A h \in Handles : InExitThread(h) ~> (opc[Main] = "idle" \/ Aborted)

\* C7 witness: ExitThread() has returned through the timeout path for a
\* worker that was still parked at the barrier.
C7_Witness ==
  \E h \in Handles :
    /\ SYNC_START[h] /\ ~startAllCalled
    /\ exitPath[h] = "forced" /\ tPc[m_threadId[h]] = "killed"
    /\ opc[Main] = "idle"

\* How often the loop of thread t has printed payload p, how often p waits in
\* the queue of t, and whether the loop of t holds p between GetMessage and
\* the print.
Delivered(p, t) == Cardinality({i \in 1..Len(tOut[t]) : tOut[t][i][1] = p})
Pending(p, t) == Cardinality({i \in 1..Len(tQueue[t]) : tQueue[t][i] = <<WM_THREAD_MSG, p>>})
InHand(p, t) == IF tPc[t] = "switch" /\ tMsg[t] = <<WM_THREAD_MSG, p>> THEN 1 ELSE 0
Copies(p, t) == Delivered(p, t) + Pending(p, t) + InHand(p, t)

\* C8 as stated: a payload posted to a created handle is delivered to that
\* handle's loop exactly once: it is queued there, in the hands of that loop,
\* or was delivered there once, and nowhere else; it is never dropped.
C8_ExactlyOnce ==
  \A p \in Payloads :
    (postCreated[p] /\ sentTo[p] # 0) =>
      \A t \in Tids : Copies(p, t) = (IF t = sentTo[p] THEN 1 ELSE 0)

\* C8, amended: a posted payload is delivered at most once and only to the loop
\* of the thread it was posted to; a payload posted to a created handle is
\* delivered exactly once (or still on its way) unless that thread was
\* terminated by ExitThread()'s timeout path; nobody but the receiving loop
\* deletes the payload, and it does so after it has delivered it.
C8_AtMostOnce ==
  \A p \in Payloads :
    /\ \A t \in Tids :
         /\ Copies(p, t) <= 1
         /\ t # sentTo[p] => Copies(p, t) = 0
         /\ (Delivered(p, t) = 1 /\ tPc[t] # "killed"
               /\ ~(tPc[t] = "delete" /\ tMsg[t][2] = p)) => p \notin heap
    /\ (postCreated[p] /\ sentTo[p] # 0 /\ tPc[sentTo[p]] # "killed")
         => Copies(p, sentTo[p]) = 1
    /\ p \in heap => p <= nPosts
    /\ (p <= nPosts /\ p \notin heap)
         => \E t \in Tids : t = sentTo[p] /\ Delivered(p, t) = 1

\* C8 witness: a posted payload was delivered once and deleted by the loop.
C8_Witness ==
  \E p \in Payloads :
    /\ sentTo[p] # 0 /\ Delivered(p, sentTo[p]) = 1
    /\ tOut[sentTo[p]] = <<<<p, THREAD_NAME(tObj[sentTo[p]])>>>>
    /\ p \notin heap

\* C9: WM_EXIT_THREAD is behind every message queued before it, and when the
\* loop takes it (ExitThread() is then still waiting, so every post to the
\* thread came before the ExitThread() call) every payload posted to that thread
\* has been delivered and deleted.
C9_StopIsLast ==
  \A t \in Tids :
    /\ \A i \in 1..Len(tQueue[t]) :
         tQueue[t][i][1] = WM_EXIT_THREAD => i = Len(tQueue[t])
    /\ (tPc[t] = "exiting" \/ (tPc[t] = "switch" /\ tMsg[t][1] = WM_EXIT_THREAD))
         => \A p \in Payloads : sentTo[p] = t => (Delivered(p, t) = 1 /\ p \notin heap)

\* C9 witness: the loop has just taken the stop message, after both posted
\* messages, while ExitThread() is still waiting.
C9_Witness ==
  \E t \in Tids :
    /\ tPc[t] = "exiting" /\ InExitThread(tObj[t])
    /\ Len(tOut[t]) = 2

\* C10: when main() has run to the end and both ExitThread() calls saw the
\* exit event signaled, each loop has printed its own payload once under its
\* own name, both workers have returned from Process(), every message is
\* deleted and both handles are closed.
C10_MainScenario ==
  (exitPath[1] = "graceful" /\ exitPath[2] = "graceful") =>
    /\ \A h \in Handles :
         /\ tOut[m_threadId[h]] = <<<<h, THREAD_NAME(h)>>>>
         /\ tPc[m_threadId[h]] \in {"signaled", "done"}
         /\ m_hThread[h] = INVALID_HANDLE_VALUE
         /\ m_hThreadExited[h] = NO_EVENT
    /\ m_threadId[1] # m_threadId[2]
    /\ heap = {}
    /\ opc[Main] = "idle"

\* C10 witness: main() has reached its end with both exits graceful.
C10_Witness ==
  /\ exitPath[1] = "graceful" /\ exitPath[2] = "graceful"
  /\ nPosts = 2 /\ startAllCalled /\ opc[Main] = "idle"

\* C11 as stated: Process() is invoked exactly once per handle: a handle whose
\* ExitThread() has returned had its worker call Process() once.
C11_ExactlyOnce ==
  \A h \in Handles : Joined(h) => processCalls[m_threadId[h]] = 1

\* C11, amended: a spawned thread calls Process() at most once, never before
\* its handshake and (for a sync-start handle) the release; it has called it
\* once when it is in or past its loop and when its handle was joined
\* gracefully; a thread terminated at the barrier never calls it.  A thread
\* that returns from RunProcess has the value Process() returned as exit code.
C11_AtMostOnce ==
  \A t \in Tids :
    /\ processCalls[t] <= 1
    /\ PastBarrier(t) => processCalls[t] = 1
    /\ tPc[t] \in {"unborn", "entry", "peeked", "sync"} => processCalls[t] = 0
    /\ (processCalls[t] = 1 /\ SYNC_START[tObj[t]]) => startAllCalled
    /\ retVal[t] # NoCode => processCalls[t] = 1
    /\ tPc[t] = "done" => (retVal[t] # NoCode /\ exitCode[t] = retVal[t])
    /\ Alive(t) => exitCode[t] = NoCode
    /\ tPc[t] = "killed" => exitCode[t] = 1
    /\ \A h \in Handles :
         (exitPath[h] = "graceful" /\ m_threadId[h] = t) => processCalls[t] = 1

\* C11 witness: a worker has called Process() once, returned from it and from
\* RunProcess with its return value, and its handle was joined.
C11_Witness ==
  \E h \in Handles :
    /\ exitPath[h] = "graceful"
    /\ processCalls[m_threadId[h]] = 1
    /\ tPc[m_threadId[h]] = "done" /\ exitCode[m_threadId[h]] = 0

\* C12: once StartAllThreads() has been called the release-all event is set
\* and stays set for as long as the process runs, whatever the owner and the
\* workers do; a further StartAllThreads() call changes nothing of the
\* program's state.
C12_StickyRelease ==
  /\ [](startAllCalled => m_hStartAllThreads)
  /\ [][(startAllCalled /\ fault' = "none")
          => (startAllCalled' /\ m_hStartAllThreads')]_vars
  /\ [][(startAllCalled /\ StartAllThreads(Main))
          => UNCHANGED <<SYNC_START, handleVars, m_hStartAllThreads, startAllCalled,
                         events, threadVars, opc, oh, exitPath, msgVars, fault,
                         runVars>>]_vars

\* C12 witness: StartAllThreads() has been called twice, the event is set and
\* a sync-start worker is in its loop.
C12_Witness ==
  /\ nStartAll = 2 /\ m_hStartAllThreads
  /\ \E t \in SyncThreads : tPc[t] = "process"

\* C13: ExitThread() called on a sync-start handle whose barrier has never
\* been released ends that worker, whether the worker is released later and
\* takes the stop message or the timeout path terminates it: once that
\* ExitThread() has returned the worker is not alive.
C13_ExitBeforeRelease ==
  \A h \in Handles : (Joined(h) /\ exitParked[h]) => ~Alive(m_threadId[h])

\* C13 witness: ExitThread() began on a parked, never released worker; the
\* barrier was then released by another thread, the worker took the stop
\* message as the first message of its loop and set the exit-signal; ExitThread()
\* has returned and the worker is still running, its queue still there.
C13_Witness ==
  \E h \in Handles :
    /\ exitParked[h] /\ exitPath[h] = "graceful" /\ opc[Main] = "idle"
    /\ startAllCalled
    /\ tPc[m_threadId[h]] = "signaled" /\ tOut[m_threadId[h]] = <<>>
    /\ HasQueue(m_threadId[h])

SetupFaults == {"CreateThread: err == WAIT_OBJECT_0", "m_hThread != NULL"}

\* C14 as stated: after a handshake timeout or a spawn failure CreateThread()
\* has signaled the fatal condition and returned failure.
C14_FailureReturned ==
  fault \in SetupFaults => lastRet = "FALSE"

\* C14, amended: a handshake timeout or a spawn failure in CreateThread() is
\* fatal: the fault handler aborts the process and CreateThread() returns
\* nothing; CreateThread() returns success only after it has observed the
\* created-signal, set by the handle's own worker after PeekMessage, so no
\* handle whose worker has not created its queue is ever reported as Created.
C14_SetupFailureFatal ==
  /\ [](fault \in SetupFaults
          => /\ \A h \in Handles : ~IsCreated(h)
             /\ \A o \in Owners : opc[o] = "aborted"
             /\ lastRet = "none")
  /\ [][\A h \in Handles :
          (CreateThread_Timeout(Main, h) \/ CreateThread_SpawnFail(Main, h))
            => fault' \in SetupFaults]_vars
  /\ [][\A h \in Handles :
          CreateThread_Return(Main, h)
            => /\ events[CREATED_EVENT].signaled
               /\ tPc[m_threadId[h]] \notin {"unborn", "entry", "peeked"}
               /\ lastRet' = "TRUE"]_vars
  /\ [](\A h \in Handles :
          (IsCreated(h) /\ ~(opc[Main] = "create_wait" /\ oh[Main] = h))
            => tPc[m_threadId[h]] \notin {"unborn", "entry", "peeked"})

\* C14 witness: the handshake wait has timed out and the process is aborted.
C14_Witness ==
  /\ fault = "CreateThread: err == WAIT_OBJECT_0"
  /\ \A h \in Handles : ~IsCreated(h)

\* C15: CreateThread() on a handle that is already created returns FALSE and
\* changes nothing else; no thread is spawned for a handle while it is
\* created; no two live threads, and no two message queues, belong to the
\* same handle.
C15_OneThreadPerHandle ==
  /\ [][\A h \in Handles :
          CreateThread_AlreadyCreated(Main, h)
            => /\ lastRet' = "FALSE"
               /\ UNCHANGED <<SYNC_START, handleVars, m_hStartAllThreads,
                              startAllCalled, events, threadVars, opc, oh, exitPath,
                              msgVars, fault, runVars, nStartAll>>]_vars
  /\ [][\A h \in Handles :
          IsCreated(h) => (m_threadId'[h] = m_threadId[h] \/ fault' # "none")]_vars
  /\ [](\A t1, t2 \in Tids :
          (tObj[t1] = tObj[t2] /\ t1 # t2)
            => /\ ~(Alive(t1) /\ Alive(t2))
               /\ ~(HasQueue(t1) /\ HasQueue(t2)))

\* C15 witness: ExitThread() on a handle returned when its worker had set the
\* exit-signal and not yet returned from RunProcess; CreateThread() on the same
\* handle then spawned a second thread: two live threads, each with a message
\* queue, belong to one handle.
C15_Witness ==
  \E t1, t2 \in Tids :
    /\ t1 # t2 /\ tObj[t1] = tObj[t2]
    /\ tPc[t1] = "signaled" /\ HasQueue(t2)
    /\ m_threadId[tObj[t2]] = t2 /\ IsCreated(tObj[t2])

\* C16: with one owner thread per handle, the wait in CreateThread() on h is
\* released only when h's own thread has set the created-signal (it is past
\* PeekMessage and SetEvent), and the wait in ExitThread() on h is released by
\* the signal only when h's own worker has returned from Process() and set
\* the exit-signal.
C16_SignalIsolation ==
  [][\A o \in Owners :
       /\ CreateThread_Return(o, o) => tPc[m_threadId[o]] \notin {"entry", "peeked"}
       /\ ExitThread_Signaled(o, o) => tPc[m_threadId[o]] \in {"signaled", "done"}]_vars

\* C16 witness: CreateThread() on a handle has returned, released by the
\* other handle's worker, while its own thread has not yet run.
C16_Witness ==
  \E o \in Owners :
    /\ opc[o] = "idle" /\ IsCreated(o) /\ lastRet = "TRUE"
    /\ tPc[m_threadId[o]] = "entry"

\* C17: when the worker has returned from Process() and set the exit-signal
\* after ExitThread() posted the stop message and before ExitThread()'s wait
\* has returned, the signal is still set: the wait returns WAIT_OBJECT_0 and
\* cannot time out.
C17_NoLostWakeup ==
  \A h \in Handles :
    (opc[Main] = "exit_wait" /\ oh[Main] = h /\ tPc[m_threadId[h]] \in {"signaled", "done"})
      => /\ m_hThreadExited[h] # NO_EVENT
         /\ events[m_hThreadExited[h]].signaled
         /\ ENABLED ExitThread_Signaled(Main, h)
         /\ ~ENABLED ExitThread_Timeout(Main, h)

\* C17 witness: the worker has ended and signaled while ExitThread() has not
\* yet come back from its wait.
C17_Witness ==
  /\ opc[Main] = "exit_wait"
  /\ tPc[m_threadId[oh[Main]]] \in {"signaled", "done"}
  /\ events[EXITED_EVENT].signaled

\* C18: whenever a worker is at the step that sets the exit-signal, after
\* Process() has returned, m_hThreadExited of its ThreadWin is an open event,
\* also when the loop ended because GetMessage returned 0.
C18_ExitSignalExists ==
  \A t \in Tids :
    tPc[t] = "exiting"
      => /\ m_hThreadExited[tObj[t]] # NO_EVENT
         /\ events[EXITED_EVENT].refs > 0

\* C18 witness: the loop ended on its own, SetEvent(m_hThreadExited) failed on
\* the handle that ExitThread() had not yet created, and the assertion after
\* it aborted the process.
C18_Witness ==
  fault = "SetEvent(m_hThreadExited): err != 0"

\* C19: a spawned thread that has not yet read its ThreadParam runs while the
\* CreateThread() call that spawned it is still waiting: the frame holding the
\* parameter is live whenever the thread can read it.
C19_ParamLiveWhenRead ==
  \A t \in Tids :
    tPc[t] = "entry"
      => /\ ParamLive(t)
         /\ opc[Main] = "create_wait" /\ oh[Main] = tObj[t]
         /\ ~events[CREATED_EVENT].signaled

\* C19 witness: the spawned thread has read its parameter and created its
\* queue, and has not yet set the created-signal CreateThread() waits for.
C19_Witness ==
  \E t \in Tids :
    /\ tPc[t] = "peeked" /\ m_threadId[tObj[t]] = t
    /\ opc[Main] = "create_wait" /\ oh[Main] = tObj[t]
    /\ ~events[CREATED_EVENT].signaled

\* C20: a handle whose ExitThread() has completed holds no open kernel object;
\* every event a CreateThread() or ExitThread() call allocates is closed when
\* that call returns, so no event is open while the owner is between calls;
\* inside a call exactly the event of that call is open, once; and a valid
\* thread handle is never overwritten by another one.
C20_NoLeak ==
  /\ [](\A h \in Handles :
          Joined(h) => /\ m_hThread[h] = INVALID_HANDLE_VALUE
                       /\ m_hThreadStarted[h] = NO_EVENT
                       /\ m_hThreadExited[h] = NO_EVENT)
  /\ [](opc[Main] \in {"idle", "aborted"}
          => /\ \A n \in EventNames : events[n].refs = 0
             /\ \A h \in Handles : /\ m_hThreadStarted[h] = NO_EVENT
                                    /\ m_hThreadExited[h] = NO_EVENT)
  /\ [](opc[Main] = "create_wait"
          => events[CREATED_EVENT].refs = 1 /\ events[EXITED_EVENT].refs = 0)
  /\ [](opc[Main] \in {"exit_wait", "exit_terminate"}
          => events[EXITED_EVENT].refs = 1 /\ events[CREATED_EVENT].refs = 0)
  /\ [][\A h \in Handles :
          m_hThread'[h] # m_hThread[h]
            => (m_hThread[h] = INVALID_HANDLE_VALUE
                  \/ m_hThread'[h] = INVALID_HANDLE_VALUE)]_vars

\* C20 witness: both handles have been through CreateThread() and a completed
\* ExitThread(), one on the graceful and one on the forced path, and no
\* kernel object is open.
C20_Witness ==
  /\ opc[Main] = "idle"
  /\ \E h, g \in Handles : exitPath[h] = "graceful" /\ exitPath[g] = "forced"
  /\ \A n \in EventNames : events[n].refs = 0
  /\ \A h \in Handles : m_hThread[h] = INVALID_HANDLE_VALUE

====
